---- MODULE Spec2Model ----
(***************************************************************************)
(* Model of confectionary's coherence-based paragraph splitting:           *)
(* split_to_pars (confectionary/report_generation.py) together with the    *)
(* textsplit routines it calls (SimpleSentenceTokenizer, get_penalty with  *)
(* split_greedy, split_optimal, get_segments) and the CountVectorizer      *)
(* sentence vectors.                                                       *)
(*                                                                         *)
(* A text is a sequence of symbols.  A symbol is either one non-word       *)
(* character (".", " ", "\n") or one maximal run of word characters (a     *)
(* token of CountVectorizer's default pattern, two or more word            *)
(* characters).  The word vector table has one column (D = 1) holding      *)
(* small integers; the 2-norm of a 1-dimensional vector is its absolute    *)
(* value and every numpy operation on such inputs is exact, so that the    *)
(* scores, gains and ties of the model are those of the program.           *)
(*                                                                         *)
(* Six specifications share the variables:                                 *)
(*   Spec      split_to_pars with the simple tokenizer, called repeatedly  *)
(*   SpecTok   split_to_pars with every tokenizer argument, load_punkt     *)
(*   SpecPdf   the PDF objects of a process: init_word2vec, the chapter    *)
(*             bodies with their keyword block, generic_text               *)
(*   SpecFiles load_files_ext and the chapter order of dir_to_pdf, on a    *)
(*             directory that digest_txt_directory and move2completed      *)
(*             change before it is listed                                  *)
(*   SpecToc   estimate_TOC_pages over entry counts and thresholds         *)
(*   SpecScript the standalone script: its load_files_ext and chapters     *)
(* Each one starts with the variables of the other layers at rest and      *)
(* leaves them unchanged.                                                  *)
(***************************************************************************)
EXTENDS Integers, Sequences, FiniteSets, TLC

\* ------------------------------------------------------------------ bounds
MaxPieces == 5
MaxSegLen == 3
MaxPdfs == 2
MaxFiles == 3
MaxEntries == 125
MaxThresh == 3
MaxFailedLoads == 1

\* ------------------------------------------------------------- characters
BreakingChars == {"."}
Whitespace == {" ", "\n"}
NonWord == BreakingChars \cup Whitespace

\* The pieces texts are built from: a sentence ended by ". ", a sentence of
\* the opposite topic ended the same way, and a new line holding an unknown
\* word and a full stop with nothing after it.
Pieces == { <<"cat", ".", " ">>, <<"stock", ".", " ">>, <<"\n", "zzz", ".">> }

\* The word vector tables (token -> vector, D = 1); "zzz" is in neither.
Tables == { [w \in {"cat", "stock"} |-> IF w = "cat" THEN 2 ELSE -5],
            [w \in {"cat", "stock"} |-> IF w = "cat" THEN 1 ELSE -1] }

RECURSIVE Flatten(_)
Flatten(ss) == IF ss = <<>> THEN <<>> ELSE Head(ss) \o Flatten(Tail(ss))

RECURSIVE PieceSeqs(_)
PieceSeqs(n) == IF n = 0 THEN {<<>>}
                ELSE {<<>>} \cup { <<p>> \o s : p \in Pieces, s \in PieceSeqs(n - 1) }

Texts == { Flatten(s) : s \in PieceSeqs(MaxPieces) }

\* ------------------------------------------------------ string operations
Abs(x) == IF x < 0 THEN -x ELSE x

Slice(s, b, e) == [k \in 1..(e - b) |-> s[b + k]]

\* " ".join(segment)
RECURSIVE JoinSpace(_)
JoinSpace(ss) == IF ss = <<>> THEN <<>>
                 ELSE IF Len(ss) = 1 THEN ss[1]
                 ELSE ss[1] \o <<" ">> \o JoinSpace(Tail(ss))

\* str.strip(chars): drop the leading and trailing characters in chars
RECURSIVE LStrip(_, _)
LStrip(s, chars) == IF s # <<>> /\ Head(s) \in chars THEN LStrip(Tail(s), chars) ELSE s

RECURSIVE RStrip(_, _)
RStrip(s, chars) == IF s # <<>> /\ s[Len(s)] \in chars
                    THEN RStrip(SubSeq(s, 1, Len(s) - 1), chars) ELSE s

Strip(s, chars) == RStrip(LStrip(s, chars), chars)

\* ------------------------------------------- SimpleSentenceTokenizer
\* re.compile(r".+?[.!?]\W+", re.DOTALL).findall(text): from position p the
\* match takes at least one character, then the first breaking character
\* that is followed by a non-word character, then every following non-word
\* character.  Text after the last match is not returned.
BreakAt(text, p) ==
    LET cand == { q \in (p + 1)..(Len(text) - 1) :
                     text[q] \in BreakingChars /\ text[q + 1] \in NonWord }
    IN IF cand = {} THEN 0 ELSE CHOOSE q \in cand : \A r \in cand : q <= r

RECURSIVE RunEnd(_, _)
RunEnd(text, e) == IF e < Len(text) /\ text[e + 1] \in NonWord
                   THEN RunEnd(text, e + 1) ELSE e

RECURSIVE FindAll(_, _)
FindAll(text, p) ==
    IF p > Len(text) \/ BreakAt(text, p) = 0 THEN <<>>
    ELSE LET e == RunEnd(text, BreakAt(text, p) + 1)
         IN <<SubSeq(text, p, e)>> \o FindAll(text, e + 1)

SimpleSentenceTokenizer(text) == FindAll(text, 1)

\* -------------------------------------------------- sentence vectors
\* CountVectorizer(vocabulary=wordvectors.index).transform(s).dot(wordvectors)
RECURSIVE SentenceVector(_, _)
SentenceVector(s, table) ==
    IF s = <<>> THEN 0
    ELSE (IF Head(s) \in DOMAIN table THEN table[Head(s)] ELSE 0)
         + SentenceVector(Tail(s), table)

Vectorize(sents, table) == [k \in 1..Len(sents) |-> SentenceVector(sents[k], table)]

\* ------------------------------------------------- textsplit.algorithm
\* docmat[b:e].sum(axis=0), indices 0-based, e exclusive
RECURSIVE SumRange(_, _, _)
SumRange(docmat, b, e) == IF b >= e THEN 0 ELSE docmat[b + 1] + SumRange(docmat, b + 1, e)

\* np.linalg.norm(..., ord=2) of the sum of docmat[b:e]
Norm(docmat, b, e) == Abs(SumRange(docmat, b, e))

\* total score of the segmentation given by the sorted cuts <<0, ..., L>>
RECURSIVE TotalScore(_, _)
TotalScore(docmat, cuts) ==
    IF Len(cuts) < 2 THEN 0
    ELSE Norm(docmat, cuts[1], cuts[2]) + TotalScore(docmat, Tail(cuts))

RECURSIVE SortedSeq(_)
SortedSeq(S) == IF S = {} THEN <<>>
                ELSE LET m == CHOOSE x \in S : \A y \in S : x <= y
                     IN <<m>> \o SortedSeq(S \ {m})

\* split_greedy(docmat, max_splits=max_splits): repeatedly takes the split
\* position with the highest total score (np.argmax: the first among equal
\* ones) until max_splits splits are made or no position is left; yields the
\* gains of the splits made, whose minimum is min_gain (np.inf when empty).
RECURSIVE GreedyGains(_, _, _, _)
GreedyGains(docmat, cuts, max_splits, gains) ==
    LET L == Len(docmat)
        free == (1..(L - 1)) \ cuts
        score(s) == TotalScore(docmat, SortedSeq(cuts \cup {s}))
    IN IF free = {} THEN gains
       ELSE LET split == CHOOSE s \in free :
                            \A t \in free : score(s) > score(t) \/ (score(s) = score(t) /\ s <= t)
                split_gain == score(split) - TotalScore(docmat, SortedSeq(cuts))
                new_cuts == cuts \cup {split}
            IN IF Cardinality(new_cuts) >= max_splits + 2 THEN gains \cup {split_gain}
               ELSE GreedyGains(docmat, new_cuts, max_splits, gains \cup {split_gain})

split_greedy(docmat, max_splits) == GreedyGains(docmat, {0, Len(docmat)}, max_splits, {})

MinOf(S) == CHOOSE x \in S : \A y \in S : x <= y

\* ---------------------------------------------------- textsplit.tools
\* get_penalty([docmat], segment_len):
\*   avg_n_seg = L / segment_len
\*   max_splits = int(avg_n_seg) + (random.random() < avg_n_seg % 1) - 1
\* draw is the outcome of the comparison; it can only be TRUE when the
\* fractional part is positive.
DrawPossible(L, seglen, draw) == draw => (L % seglen # 0)

MaxSplits(L, seglen, draw) == (L \div seglen) + (IF draw THEN 1 ELSE 0) - 1

\* the penalties list of get_penalty for the single document
Penalties(docmat, seglen, draw) ==
    IF MaxSplits(Len(docmat), seglen, draw) >= 1
    THEN LET g == split_greedy(docmat, MaxSplits(Len(docmat), seglen, draw))
         IN IF g # {} THEN {MinOf(g)} ELSE {}
    ELSE {}

\* OptStep without the penalty charged per segment
OptStep_NoPenalty(docmat, pen, i, st) ==
    LET L == Len(docmat)
        score_so_far == IF i > 0 THEN st.colmax[i - 1] ELSE 0
        acc(j) == score_so_far + Norm(docmat, i, j + 1)
        better == { j \in i..(L - 1) : j \notin st.fin \/ acc(j) > st.colmax[j] }
    IN [colmax |-> [j \in 0..(L - 1) |-> IF j \in better THEN acc(j) ELSE st.colmax[j]],
        ptr |-> [j \in 0..(L - 1) |-> IF j \in better THEN i ELSE st.ptr[j]],
        fin |-> st.fin \cup better]

\* split_optimal(docmat, penalty): for every start i the scores of the
\* segments [i, j] are added to the best score of the prefix before i, minus
\* the penalty; column j keeps the best score and its start (strictly
\* greater replaces, so the lowest start wins ties).  st.fin is the set of
\* columns whose colmax is above -inf.
OptStep(docmat, pen, i, st) ==
    LET L == Len(docmat)
        score_so_far == IF i > 0 THEN st.colmax[i - 1] ELSE 0
        acc(j) == score_so_far - pen + Norm(docmat, i, j + 1)
        better == { j \in i..(L - 1) : j \notin st.fin \/ acc(j) > st.colmax[j] }
    IN [colmax |-> [j \in 0..(L - 1) |-> IF j \in better THEN acc(j) ELSE st.colmax[j]],
        ptr |-> [j \in 0..(L - 1) |-> IF j \in better THEN i ELSE st.ptr[j]],
        fin |-> st.fin \cup better]

RECURSIVE OptLoop(_, _, _, _)
OptLoop(docmat, pen, i, st) ==
    IF i >= Len(docmat) THEN st
    ELSE OptLoop(docmat, pen, i + 1, OptStep(docmat, pen, i, st))

\* path = [ptr[-1]]; while path[0] != 0: path.insert(0, ptr[path[0] - 1])
RECURSIVE BackTrack(_, _)
BackTrack(ptr, path) == IF path[1] = 0 THEN path
                        ELSE BackTrack(ptr, <<ptr[path[1] - 1]>> \o path)

\* the splits of split_optimal (path[1:])
split_optimal(docmat, pen) ==
    LET L == Len(docmat)
        st == OptLoop(docmat, pen, 0,
                      [colmax |-> [j \in 0..(L - 1) |-> 0],
                       ptr |-> [j \in 0..(L - 1) |-> 0], fin |-> {}])
    IN Tail(BackTrack(st.ptr, <<st.ptr[L - 1]>>))

\* get_segments zipping the begins with the splits only: the last segment
\* is never appended
get_segments_DropLast(text_particles, splits) ==
    LET begs == <<0>> \o splits
        ends == splits
    IN [k \in 1..Len(ends) |-> Slice(text_particles, begs[k], ends[k])]

\* get_segments walking the boundaries from the last one to the first
get_segments_Reversed(text_particles, splits) ==
    LET begs == <<0>> \o splits
        ends == splits \o <<Len(text_particles)>>
        n == Len(begs)
    IN [k \in 1..n |-> Slice(text_particles, begs[n + 1 - k], ends[n + 1 - k])]

\* get_segments(text_particles, segmentation):
\*   zip([0] + splits, splits + [L]) -> text_particles[beg:end]
get_segments(text_particles, splits) ==
    LET begs == <<0>> \o splits
        ends == splits \o <<Len(text_particles)>>
    IN [k \in 1..Len(begs) |-> Slice(text_particles, begs[k], ends[k])]

\* --------------------------------------------------------- split_to_pars
VARIABLES full_text, wordvectors, segment_len, pc, sentenced_text,
          sentence_vectors, penalty, optimal_segmentation, segmented_text,
          paragraphs, warned, exc, branch, ran, prev

\* the tokenizer arguments of split_to_pars and the nltk data directory
VARIABLES use_punkt, sent_detector, punkt_data, download_ok

\* the PDF objects of the process, one sequence entry per object and field,
\* (loads: the load_word2vec_model calls that returned a table, invoked:
\* all its calls), the model files on disk with the downloads made, and what the chapter
\* operations did: last is the latest one, seen[p] collects <<len, body>>
\* of the chapters above keyword_threshold written on the object p
VARIABLES split_paragraphs, keywords_enabled, initialized_word2vec, wrdvecs,
          ctor_args, loads, invoked, model_file, fetch_ok, seen, last, downloads

\* a directory with its subfolder "completed", the arguments and the
\* listing of the last load_files_ext call, and the files it returned
VARIABLES dir_files, completed, recursive, listing, ids, approved_files,
          chapter_order, files_pc

\* the arguments and the result of the last estimate_TOC_pages call
VARIABLES n_entries, title_thresh, std_thresh, toc_pages, toc_pc

corevars == <<full_text, wordvectors, segment_len, pc, sentenced_text,
              sentence_vectors, penalty, optimal_segmentation, segmented_text,
              paragraphs, warned, exc, branch, ran, prev>>

tokvars == <<use_punkt, sent_detector, punkt_data, download_ok>>

pdfvars == <<split_paragraphs, keywords_enabled, initialized_word2vec, wrdvecs,
             ctor_args, loads, invoked, model_file, fetch_ok, seen, last, downloads>>

tocvars == <<n_entries, title_thresh, std_thresh, toc_pages, toc_pc>>

dirvars == <<dir_files, completed>>

filevars == <<dirvars, recursive, listing, ids, approved_files, chapter_order, files_pc,
              tocvars>>

vars == <<corevars, tokvars, pdfvars, filevars>>

\* the locals of one call before it runs
Fresh ==
    /\ pc = "call"
    /\ sentenced_text = <<>>
    /\ sentence_vectors = <<>>
    /\ penalty = 0
    /\ optimal_segmentation = <<>>
    /\ segmented_text = <<>>
    /\ paragraphs = <<>>
    /\ warned = <<>>
    /\ exc = "none"
    /\ branch = "none"
    /\ ran = {}

\* split_to_pars called with its defaults: use_punkt=False, sent_detector=None
TokIdle ==
    /\ use_punkt = FALSE
    /\ sent_detector = "None"
    /\ punkt_data = "installed"
    /\ download_ok = TRUE

\* what a chapter operation leaves in last when none has run
NoOp == [pdf |-> 0, op |-> "none", len |-> 0, self_split |-> FALSE, body |-> "none",
         table |-> "n/a", keywords |-> FALSE, kw_split |-> FALSE, raised |-> FALSE]

\* word2vec_model="glove-wiki-gigaword-100", the default of every method
DefaultModel == "glove-wiki-gigaword-100"

\* the default and another gensim-data model
ModelNames == {DefaultModel, "glove-twitter-25"}

\* no PDF object has been constructed
PdfIdle ==
    /\ split_paragraphs = <<>>
    /\ keywords_enabled = <<>>
    /\ initialized_word2vec = <<>>
    /\ wrdvecs = <<>>
    /\ ctor_args = <<>>
    /\ loads = <<>>
    /\ invoked = <<>>
    /\ seen = <<>>
    /\ model_file = [m \in ModelNames |-> "present"]
    /\ downloads = [m \in ModelNames |-> 0]
    /\ fetch_ok = TRUE
    /\ last = NoOp

\* estimate_TOC_pages has not been called
TocIdle ==
    /\ n_entries = 0
    /\ title_thresh = 0
    /\ std_thresh = 0
    /\ toc_pages = 0
    /\ toc_pc = "idle"

\* the directory has no subfolder "completed"
NoSubfolder == completed = [made |-> FALSE, files |-> {}]

\* no directory has been listed
FilesIdle ==
    /\ TocIdle
    /\ dir_files = {}
    /\ NoSubfolder
    /\ recursive = FALSE
    /\ listing = <<>>
    /\ ids = <<>>
    /\ approved_files = <<>>
    /\ chapter_order = <<>>
    /\ files_pc = "idle"

Init ==
    /\ full_text \in Texts
    /\ wordvectors \in Tables
    /\ segment_len \in 1..MaxSegLen
    /\ Fresh
    /\ prev = [segment_len |-> 0, paragraphs |-> <<>>, branch |-> "none"]
    /\ TokIdle
    /\ PdfIdle
    /\ FilesIdle

\* the comparison with >= in place of >
LongEnough_Ge(n, seglen) == n >= seglen

\* len(sentenced_text) > segment_len
LongEnough(n, seglen) == n > seglen

\* a clause that names ValueError only
Catches_ValueErrorOnly(e) == e = "ValueError"

\* no except clause at all
Catches_Nothing(e) == FALSE

\* except Exception as e: every exception class the program raises here is
\* a subclass of Exception
Catches(e) == e \in {"ValueError", "AssertionError", "LookupError"}

\* sentence_tokenizer = SimpleSentenceTokenizer(); sentenced_text = ...
Tokenize ==
    /\ pc = "call"
    /\ ~use_punkt
    /\ sentenced_text' = SimpleSentenceTokenizer(full_text)
    /\ pc' = "len_check"
    /\ UNCHANGED <<full_text, wordvectors, segment_len, sentence_vectors, penalty,
                   optimal_segmentation, segmented_text, paragraphs, warned, exc,
                   branch, ran, prev>>
    /\ UNCHANGED <<tokvars, pdfvars, filevars>>

\* else branch: warn and take the sentences as paragraphs
TooFewSentences ==
    /\ pc = "len_check"
    /\ ~LongEnough(Len(sentenced_text), segment_len)
    /\ warned' = Append(warned, "less sentences than desired segments")
    /\ paragraphs' = sentenced_text
    /\ branch' = "short"
    /\ pc' = "strip"
    /\ UNCHANGED <<full_text, wordvectors, segment_len, sentenced_text,
                   sentence_vectors, penalty, optimal_segmentation, segmented_text,
                   exc, ran, prev>>
    /\ UNCHANGED <<tokvars, pdfvars, filevars>>

\* vecr.transform(sentenced_text).dot(wordvectors)
VectorizeSentences ==
    /\ pc = "len_check"
    /\ LongEnough(Len(sentenced_text), segment_len)
    /\ sentence_vectors' = Vectorize(sentenced_text, wordvectors)
    /\ pc' = "get_penalty"
    /\ UNCHANGED <<full_text, wordvectors, segment_len, sentenced_text, penalty,
                   optimal_segmentation, segmented_text, paragraphs, warned, exc,
                   branch, ran, prev>>
    /\ UNCHANGED <<tokvars, pdfvars, filevars>>

\* penalty = get_penalty([sentence_vectors], segment_len); np.mean of the one
\* penalty, or ValueError('All documents too short for given segment_len.')
GetPenalty(draw) ==
    /\ pc = "get_penalty"
    /\ DrawPossible(Len(sentence_vectors), segment_len, draw)
    /\ ran' = ran \cup {"get_penalty"}
    /\ LET pens == Penalties(sentence_vectors, segment_len, draw)
       IN IF pens # {}
          THEN /\ penalty' = MinOf(pens)
               /\ pc' = "split_optimal"
               /\ exc' = exc
          ELSE /\ exc' = "ValueError"
               /\ pc' = "except"
               /\ penalty' = penalty
    /\ UNCHANGED <<full_text, wordvectors, segment_len, sentenced_text,
                   sentence_vectors, optimal_segmentation, segmented_text,
                   paragraphs, warned, branch, prev>>
    /\ UNCHANGED <<tokvars, pdfvars, filevars>>

\* optimal_segmentation = split_optimal(sentence_vectors, penalty), which
\* asserts penalty > 0
SplitOptimal ==
    /\ pc = "split_optimal"
    /\ ran' = ran \cup {"split_optimal"}
    /\ IF penalty > 0
       THEN /\ optimal_segmentation' = split_optimal(sentence_vectors, penalty)
            /\ pc' = "get_segments"
            /\ exc' = exc
       ELSE /\ exc' = "AssertionError"
            /\ pc' = "except"
            /\ optimal_segmentation' = optimal_segmentation
    /\ UNCHANGED <<full_text, wordvectors, segment_len, sentenced_text,
                   sentence_vectors, penalty, segmented_text, paragraphs, warned,
                   branch, prev>>
    /\ UNCHANGED <<tokvars, pdfvars, filevars>>

\* segmented_text = get_segments(...); paragraphs = [" ".join(segment) ...]
GetSegments ==
    /\ pc = "get_segments"
    /\ segmented_text' = get_segments(sentenced_text, optimal_segmentation)
    /\ paragraphs' = [k \in 1..Len(segmented_text') |-> JoinSpace(segmented_text'[k])]
    /\ branch' = "segmented"
    /\ pc' = "strip"
    /\ UNCHANGED <<full_text, wordvectors, segment_len, sentenced_text,
                   sentence_vectors, penalty, optimal_segmentation, warned, exc,
                   ran, prev>>
    /\ UNCHANGED <<tokvars, pdfvars, filevars>>

\* except Exception as e: warn, segmented_text = sentenced_text,
\* paragraphs = segmented_text; an exception the clause does not catch
\* leaves split_to_pars
Except ==
    /\ pc = "except"
    /\ IF Catches(exc)
       THEN /\ warned' = Append(warned, "Error in split_to_pars")
            /\ segmented_text' = sentenced_text
            /\ paragraphs' = sentenced_text
            /\ branch' = "except"
            /\ pc' = "strip"
       ELSE /\ pc' = "raised"
            /\ UNCHANGED <<warned, segmented_text, paragraphs, branch>>
    /\ UNCHANGED <<full_text, wordvectors, segment_len, sentenced_text,
                   sentence_vectors, penalty, optimal_segmentation, exc, ran,
                   prev>>
    /\ UNCHANGED <<tokvars, pdfvars, filevars>>

\* paragraphs = [p.strip(" ") for p in paragraphs]; return paragraphs
StripAndReturn ==
    /\ pc = "strip"
    /\ paragraphs' = [k \in 1..Len(paragraphs) |-> Strip(paragraphs[k], {" "})]
    /\ pc' = "done"
    /\ UNCHANGED <<full_text, wordvectors, segment_len, sentenced_text,
                   sentence_vectors, penalty, optimal_segmentation, segmented_text,
                   warned, exc, branch, ran, prev>>
    /\ UNCHANGED <<tokvars, pdfvars, filevars>>

\* the caller calls split_to_pars again on the same text and table, with a
\* segment_len of its choice; prev keeps what the finished call returned
CallAgain(seglen) ==
    /\ pc = "done"
    /\ prev' = [segment_len |-> segment_len, paragraphs |-> paragraphs, branch |-> branch]
    /\ segment_len' = seglen
    /\ pc' = "call"
    /\ sentenced_text' = <<>>
    /\ sentence_vectors' = <<>>
    /\ penalty' = 0
    /\ optimal_segmentation' = <<>>
    /\ segmented_text' = <<>>
    /\ paragraphs' = <<>>
    /\ warned' = <<>>
    /\ exc' = "none"
    /\ branch' = "none"
    /\ ran' = {}
    /\ UNCHANGED <<full_text, wordvectors>>
    /\ UNCHANGED <<tokvars, pdfvars, filevars>>

Next ==
    \/ Tokenize
    \/ TooFewSentences
    \/ VectorizeSentences
    \/ \E draw \in BOOLEAN : GetPenalty(draw)
    \/ SplitOptimal
    \/ GetSegments
    \/ Except
    \/ StripAndReturn
    \/ \E seglen \in 1..MaxSegLen : CallAgain(seglen)

Spec == Init /\ [][Next]_vars

\* ------------------------------------------- the tokenizer arguments
\* PunktSentenceTokenizer.tokenize on stripped text: a sentence ends at a
\* breaking character that is followed by whitespace and another token; the
\* whitespace between two sentences belongs to neither
PunktBreak(text, p) ==
    LET cand == { q \in p..(Len(text) - 1) :
                     text[q] \in BreakingChars /\ text[q + 1] \in Whitespace }
    IN IF cand = {} THEN 0 ELSE CHOOSE q \in cand : \A r \in cand : q <= r

RECURSIVE SkipWhitespace(_, _)
SkipWhitespace(text, p) == IF p <= Len(text) /\ text[p] \in Whitespace
                           THEN SkipWhitespace(text, p + 1) ELSE p

RECURSIVE PunktFrom(_, _)
PunktFrom(text, p) ==
    IF p > Len(text) THEN <<>>
    ELSE IF PunktBreak(text, p) = 0 THEN <<SubSeq(text, p, Len(text))>>
    ELSE LET q == PunktBreak(text, p)
         IN <<SubSeq(text, p, q)>> \o PunktFrom(text, SkipWhitespace(text, q + 1))

PunktTokenize(text) == PunktFrom(text, 1)

\* str.split("."): the pieces between the full stops, empty ones included
RECURSIVE SplitOnDot(_)
SplitOnDot(s) ==
    IF \A k \in 1..Len(s) : s[k] # "." THEN <<s>>
    ELSE LET q == CHOOSE k \in 1..Len(s) : s[k] = "." /\ \A j \in 1..(k - 1) : s[j] # "."
         IN <<SubSeq(s, 1, q - 1)>> \o SplitOnDot(SubSeq(s, q + 1, Len(s)))

\* sent_detector.tokenize(full_text.strip()), then the isinstance(str)
\* recovery: a punkt detector returns a list, a detector that returns one
\* string has it split on "."
DetectorSentences(detector, text) ==
    IF detector = "punkt" THEN PunktTokenize(Strip(text, Whitespace))
    ELSE SplitOnDot(Strip(text, Whitespace))

\* load_punkt(use_punkt) when use_punkt and sent_detector is None:
\* nltk.data.find, on LookupError nltk.download("punkt"), then
\* nltk.data.load inside the handler, whose LookupError nothing catches
LoadPunkt ==
    /\ pc = "call"
    /\ use_punkt
    /\ sent_detector = "None"
    /\ ran' = ran \cup {"load_punkt"}
    /\ IF punkt_data = "installed"
       THEN /\ sent_detector' = "punkt"
            /\ UNCHANGED <<punkt_data, pc, exc>>
       ELSE IF download_ok
       THEN /\ punkt_data' = "installed"
            /\ sent_detector' = "punkt"
            /\ UNCHANGED <<pc, exc>>
       ELSE /\ exc' = "LookupError"
            /\ pc' = "raised"
            /\ UNCHANGED <<punkt_data, sent_detector>>
    /\ UNCHANGED <<full_text, wordvectors, segment_len, sentenced_text,
                   sentence_vectors, penalty, optimal_segmentation, segmented_text,
                   paragraphs, warned, branch, prev>>
    /\ UNCHANGED <<use_punkt, download_ok, pdfvars, filevars>>

\* if use_punkt: sentenced_text = sent_detector.tokenize(full_text.strip());
\* if isinstance(sentenced_text, str): sentenced_text.split(".")
TokenizeDetector ==
    /\ pc = "call"
    /\ use_punkt
    /\ sent_detector # "None"
    /\ sentenced_text' = DetectorSentences(sent_detector, full_text)
    /\ pc' = "len_check"
    /\ UNCHANGED <<full_text, wordvectors, segment_len, sentence_vectors, penalty,
                   optimal_segmentation, segmented_text, paragraphs, warned, exc,
                   branch, ran, prev>>
    /\ UNCHANGED <<tokvars, pdfvars, filevars>>

\* the ways split_to_pars is called: simple tokenizer; punkt to be loaded,
\* with the nltk data installed, downloadable or out of reach; a detector
\* handed in by the caller, returning a list or one string
TokModes ==
    { [use_punkt |-> FALSE, sent_detector |-> "None", punkt_data |-> "installed", download_ok |-> TRUE],
      [use_punkt |-> TRUE, sent_detector |-> "None", punkt_data |-> "installed", download_ok |-> TRUE],
      [use_punkt |-> TRUE, sent_detector |-> "None", punkt_data |-> "missing", download_ok |-> TRUE],
      [use_punkt |-> TRUE, sent_detector |-> "None", punkt_data |-> "missing", download_ok |-> FALSE],
      [use_punkt |-> TRUE, sent_detector |-> "punkt", punkt_data |-> "installed", download_ok |-> TRUE],
      [use_punkt |-> TRUE, sent_detector |-> "str", punkt_data |-> "installed", download_ok |-> TRUE] }

InitTok ==
    /\ full_text \in Texts
    /\ wordvectors \in Tables
    /\ segment_len \in 1..MaxSegLen
    /\ Fresh
    /\ prev = [segment_len |-> 0, paragraphs |-> <<>>, branch |-> "none"]
    /\ \E m \in TokModes :
          /\ use_punkt = m.use_punkt
          /\ sent_detector = m.sent_detector
          /\ punkt_data = m.punkt_data
          /\ download_ok = m.download_ok
    /\ PdfIdle
    /\ FilesIdle

NextTok ==
    \/ LoadPunkt
    \/ TokenizeDetector
    \/ Tokenize
    \/ TooFewSentences
    \/ VectorizeSentences
    \/ \E draw \in BOOLEAN : GetPenalty(draw)
    \/ SplitOptimal
    \/ GetSegments
    \/ Except
    \/ StripAndReturn

SpecTok == InitTok /\ [][NextTok]_vars

\* ------------------------------------------------------ the PDF class
\* split_to_pars is not running
CoreIdle ==
    /\ full_text = <<>>
    /\ wordvectors = [w \in {"cat", "stock"} |-> IF w = "cat" THEN 1 ELSE -1]
    /\ segment_len = 1
    /\ Fresh
    /\ prev = [segment_len |-> 0, paragraphs |-> <<>>, branch |-> "none"]

\* keyword_threshold: int = 1500
keyword_threshold == 1500

\* len(text) of the chapters: at the threshold and one character above it
TextLens == {keyword_threshold, keyword_threshold + 1}

\* load_word2vec_model: joblib.load of the local .pkl when it exists, else
\* api.load from gensim-data, which raises when the fetch fails
LoadOutcome(file_exists, fetch) == IF file_exists \/ fetch THEN "loaded" ELSE "raise"

\* model_path.exists(): the .pkl was there from the start ("present") or
\* an earlier call has written it ("saved")
Exists(file) == file # "absent"

\* a load that does not write the .pkl
FileAfterLoad_NoDump(file) == file

\* joblib.dump(model, model_path) after a download
FileAfterLoad(file) == IF Exists(file) THEN file ELSE "saved"

\* the flag assigned before the load
FlagAfterFailedLoad_SetFirst(flag) == TRUE

\* init_word2vec assigns self.initialized_word2vec = True after the load has
\* returned, so a load that raises leaves the flag as it was
FlagAfterFailedLoad(flag) == flag

\* the guard without the flag
NeedsLoad_NoFlag(p) == split_paragraphs[p]

\* init_word2vec's guard: self.split_paragraphs and not self.initialized_word2vec
NeedsLoad(p) == split_paragraphs[p] /\ ~initialized_word2vec[p]

\* the keyword block without its first assignment
KeywordSelfSplit_Kept(cur) == cur

\* self.split_paragraphs = False before the keywords are written
KeywordSelfSplit(cur) == FALSE

\* generic_text: if self.split_paragraphs or split_paragraphs
GenericSplits(self_split, arg_split) == self_split \/ arg_split

\* len(text) > keyword_threshold and self.keywords_enabled
AddsKeywords(n, enabled) == n > keyword_threshold /\ enabled

\* print_chapter and print_chapter_URL call one of these two
ChapterOps == {"chapter_body_filepath", "chapter_body_fromURL"}

\* PDF(split_paragraphs=sp, keywords_enabled=kw), as str_to_pdf, file_to_pdf
\* and dir_to_pdf construct it
NewPDF(sp, kw) ==
    /\ Len(split_paragraphs) < MaxPdfs
    /\ split_paragraphs' = Append(split_paragraphs, sp)
    /\ keywords_enabled' = Append(keywords_enabled, kw)
    /\ initialized_word2vec' = Append(initialized_word2vec, FALSE)
    /\ wrdvecs' = Append(wrdvecs, "None")
    /\ ctor_args' = Append(ctor_args, [split_paragraphs |-> sp, keywords_enabled |-> kw])
    /\ loads' = Append(loads, 0)
    /\ invoked' = Append(invoked, 0)
    /\ seen' = Append(seen, {})
    /\ UNCHANGED <<model_file, fetch_ok, last, downloads>>
    /\ UNCHANGED <<corevars, tokvars, filevars>>

\* the sum of a counter over all PDF objects
RECURSIVE SumSeq(_)
SumSeq(q) == IF q = <<>> THEN 0 ELSE Head(q) + SumSeq(Tail(q))

\* the load_word2vec_model calls of the process that raised
FailedLoads == SumSeq(invoked) - SumSeq(loads)

\* self.init_word2vec(word2vec_model=name) when `wanted` holds (the caller
\* reached the call): the load fails
InitFails(p, name, wanted) ==
    wanted /\ NeedsLoad(p) /\ LoadOutcome(Exists(model_file[name]), fetch_ok) = "raise"

\* init_word2vec(name) on the PDF p: under its guard load_word2vec_model
\* is invoked (counted in invoked), reads the local file or downloads and
\* saves it, then wrdvecs and the flag are assigned (counted in loads); a
\* failing load leaves the fields and is told by InitFails (the process
\* sees at most MaxFailedLoads of them)
InitEffect(p, name, wanted) ==
    /\ InitFails(p, name, wanted) => FailedLoads < MaxFailedLoads
    /\ IF InitFails(p, name, wanted)
       THEN /\ initialized_word2vec' =
                  [initialized_word2vec EXCEPT ![p] = FlagAfterFailedLoad(@)]
            /\ invoked' = [invoked EXCEPT ![p] = @ + 1]
            /\ UNCHANGED <<wrdvecs, loads, model_file, downloads>>
       ELSE LET load == wanted /\ NeedsLoad(p)
            IN /\ initialized_word2vec' = [initialized_word2vec EXCEPT ![p] = @ \/ load]
               /\ wrdvecs' = [wrdvecs EXCEPT ![p] = IF load THEN name ELSE @]
               /\ loads' = [loads EXCEPT ![p] = IF load THEN @ + 1 ELSE @]
               /\ invoked' = [invoked EXCEPT ![p] = IF load THEN @ + 1 ELSE @]
               /\ downloads' = [downloads EXCEPT ![name] =
                                   IF load /\ ~Exists(model_file[name]) THEN @ + 1 ELSE @]
               /\ model_file' = [model_file EXCEPT ![name] =
                                    IF load THEN FileAfterLoad(@) ELSE @]

\* pdf.init_word2vec(word2vec_model=name) called from outside
InitWord2vec(p, name) ==
    /\ p \in 1..Len(split_paragraphs)
    /\ InitEffect(p, name, TRUE)
    /\ UNCHANGED <<split_paragraphs, keywords_enabled, ctor_args, fetch_ok, seen, last>>
    /\ UNCHANGED <<corevars, tokvars, filevars>>

\* print_chapter / print_chapter_URL: the body that chapter_body_filepath
\* and chapter_body_fromURL share, on the PDF p for a text of n characters,
\* with the default word2vec_model: init_word2vec and split_to_pars, or the
\* text as one block; then the keyword block
ChapterBody(p, n, op) ==
    /\ p \in 1..Len(split_paragraphs)
    /\ InitEffect(p, DefaultModel, split_paragraphs[p])
    /\ IF InitFails(p, DefaultModel, split_paragraphs[p])
       THEN /\ last' = [pdf |-> p, op |-> op, len |-> n,
                        self_split |-> split_paragraphs[p],
                        body |-> "none", table |-> "n/a", keywords |-> FALSE,
                        kw_split |-> FALSE, raised |-> TRUE]
            /\ UNCHANGED <<split_paragraphs, seen>>
       ELSE LET body == IF split_paragraphs[p] THEN "split" ELSE "block"
                kw == AddsKeywords(n, keywords_enabled[p])
            IN /\ seen' = [seen EXCEPT ![p] = IF n > keyword_threshold
                                             THEN @ \cup {<<n, body>>} ELSE @]
               /\ split_paragraphs' = [split_paragraphs EXCEPT ![p] = IF kw THEN TRUE ELSE @]
               /\ last' = [pdf |-> p, op |-> op, len |-> n,
                           self_split |-> split_paragraphs[p],
                           body |-> body,
                           table |-> IF split_paragraphs[p] THEN wrdvecs'[p] ELSE "n/a",
                           keywords |-> kw,
                           kw_split |-> kw /\ GenericSplits(KeywordSelfSplit(split_paragraphs[p]), FALSE),
                           raised |-> FALSE]
    /\ UNCHANGED <<keywords_enabled, ctor_args, fetch_ok>>
    /\ UNCHANGED <<corevars, tokvars, filevars>>

\* generic_text(the_text, split_paragraphs=arg_split) called from outside
\* the keyword block, with the default word2vec_model; many: the text has
\* more than segment_len sentences, so that split_to_pars reads
\* wordvectors.index.  When it splits, each paragraph is written as a cell
\* of its own and then, the last multi_cell being outside the if, the
\* whole text once more as one block ("split+block")
GenericText(p, arg_split, many) ==
    /\ p \in 1..Len(split_paragraphs)
    /\ InitEffect(p, DefaultModel, GenericSplits(split_paragraphs[p], arg_split))
    /\ IF InitFails(p, DefaultModel, GenericSplits(split_paragraphs[p], arg_split))
       THEN last' = [pdf |-> p, op |-> "generic_text", len |-> 0,
                     self_split |-> split_paragraphs[p], body |-> "none",
                     table |-> "n/a", keywords |-> FALSE, kw_split |-> FALSE,
                     raised |-> TRUE]
       ELSE LET splits == GenericSplits(split_paragraphs[p], arg_split)
                table == IF splits THEN wrdvecs'[p] ELSE "n/a"
            IN last' = [pdf |-> p, op |-> "generic_text", len |-> 0,
                        self_split |-> split_paragraphs[p],
                        body |-> IF splits /\ ~(table = "None" /\ many)
                                 THEN "split+block"
                                 ELSE IF splits THEN "none" ELSE "block",
                        table |-> table, keywords |-> FALSE, kw_split |-> FALSE,
                        raised |-> (table = "None" /\ many)]
    /\ UNCHANGED <<split_paragraphs, keywords_enabled, ctor_args, fetch_ok, seen>>
    /\ UNCHANGED <<corevars, tokvars, filevars>>

InitPdf ==
    /\ CoreIdle
    /\ TokIdle
    /\ FilesIdle
    /\ split_paragraphs = <<>>
    /\ keywords_enabled = <<>>
    /\ initialized_word2vec = <<>>
    /\ wrdvecs = <<>>
    /\ ctor_args = <<>>
    /\ loads = <<>>
    /\ invoked = <<>>
    /\ seen = <<>>
    /\ model_file \in [ModelNames -> {"absent", "present"}]
    /\ downloads = [m \in ModelNames |-> 0]
    /\ fetch_ok \in BOOLEAN
    /\ last = NoOp

NextPdf ==
    \/ \E sp \in BOOLEAN, kw \in BOOLEAN : NewPDF(sp, kw)
    \/ \E p \in 1..MaxPdfs, name \in ModelNames : InitWord2vec(p, name)
    \/ \E p \in 1..MaxPdfs, n \in TextLens, op \in ChapterOps : ChapterBody(p, n, op)
    \/ \E p \in 1..MaxPdfs, arg_split \in BOOLEAN, many \in BOOLEAN :
          GenericText(p, arg_split, many)

SpecPdf == InitPdf /\ [][NextPdf]_vars

\* ---------------------------------------------- the files of a directory
\* A file name is a sequence of characters ending in "." and the extension
\* (the extension is one symbol).
AllFiles == { <<"a", "2", ".", "txt">>, <<"b", "1", ".", "txt">>,
              <<"a", "1", "0", ".", "txt">>, <<"c", "2", ".", "txt">>,
              <<"n", ".", "txt">>, <<"a", "1", ".", "md">> }

Digits == {"0", "1", "2"}

DigitVal(c) == IF c = "0" THEN 0 ELSE IF c = "1" THEN 1 ELSE 2

\* random.randint(0, 10**8)
RandMax == 100000000

\* the values of random.randint the model draws: both ends of the range
\* and a value that a numbered file also has
RandInts == {0, 2, RandMax}

\* target_dir.glob("*." + ext)
Matches(name, ext) ==
    Len(name) >= 2 /\ name[Len(name)] = ext /\ name[Len(name) - 1] = "."

\* int(re.search(r"\d+", my_string).group(0)): the first maximal run of
\* digits, read as a decimal number
RECURSIVE DigitRun(_, _, _)
DigitRun(name, k, acc) ==
    IF k <= Len(name) /\ name[k] \in Digits
    THEN DigitRun(name, k + 1, 10 * acc + DigitVal(name[k]))
    ELSE acc

HasNumber(name) == \E k \in 1..Len(name) : name[k] \in Digits

\* get_first_number(my_string); rnd is what random.randint returns when
\* the string holds no digit
get_first_number(name, rnd) ==
    IF ~HasNumber(name) THEN rnd
    ELSE LET k == CHOOSE i \in 1..Len(name) :
                     name[i] \in Digits /\ \A j \in 1..(i - 1) : name[j] \notin Digits
         IN DigitRun(name, k, 0)

\* dict(zip(keys, vals)) as the sequence of its items <<key, value>>: a key
\* keeps the position of its first occurrence and the value of its last
RECURSIVE ZipDict(_, _)
ZipDict(keys, vals) ==
    IF keys = <<>> \/ vals = <<>> THEN <<>>
    ELSE LET n == IF Len(keys) < Len(vals) THEN Len(keys) ELSE Len(vals)
             d == ZipDict(SubSeq(keys, 1, n - 1), SubSeq(vals, 1, n - 1))
         IN IF \E i \in 1..Len(d) : d[i][1] = keys[n]
            THEN [i \in 1..Len(d) |-> IF d[i][1] = keys[n] THEN <<keys[n], vals[n]>> ELSE d[i]]
            ELSE Append(d, <<keys[n], vals[n]>>)

\* the dictionary keyed by the numbers: dict(zip(ids, files)), shown as
\* items <<file, id>>
my_dict_KeyedById(files, idseq) ==
    LET d == ZipDict(idseq, files) IN [i \in 1..Len(d) |-> <<d[i][2], d[i][1]>>]

\* my_dict = dict(zip(files, ids)): items <<file, id>>
my_dict(files, idseq) == ZipDict(files, idseq)

\* dict_sort_by_vals: natsorted(d.items(), key=lambda item: item[1]), a
\* stable sort of the items by their integer value
RECURSIVE SortItems(_, _)
SortItems(d, rest) ==
    IF rest = {} THEN <<>>
    ELSE LET i == CHOOSE a \in rest : \A b \in rest :
                     d[a][2] < d[b][2] \/ (d[a][2] = d[b][2] /\ a <= b)
         IN <<d[i]>> \o SortItems(d, rest \ {i})

dict_sort_by_vals(d) == SortItems(d, 1..Len(d))

\* sorted_dict.keys()
Keys(d) == [i \in 1..Len(d) |-> d[i][1]]

\* the orders in which glob can yield the files of S
Listings(S) == { q \in [1..Cardinality(S) -> S] :
                   \A i \in 1..Cardinality(S), j \in 1..Cardinality(S) : q[i] = q[j] => i = j }

\* digest_txt_directory(src_dir, identifer): the identifiers tried: one
\* with a number and the default ""
Identifiers == { <<"c", "2">>, <<>> }

\* digest_file = identifer + "_digest.txt"
DigestFile(identifer) == identifer \o <<"_digest", ".", "txt">>

\* move2completed(from_dir, filename): the file names tried: a text file,
\* a digest file and a file of another extension
FileNames == { <<"a", "2", ".", "txt">>, DigestFile(<<"c", "2">>), <<"a", "1", ".", "md">> }

\* join(from_dir, new_folder, filename) with new_folder="completed"
InCompleted(name) == <<"completed/">> \o name

\* file.name of a path
FileName(path) == IF path # <<>> /\ Head(path) = "completed/" THEN Tail(path) ELSE path

\* target_dir.glob("*." + ext), or target_dir.glob("**/*." + ext) when
\* recursive, which also yields the files of the subfolder
Glob(ext, rec) ==
    { f \in dir_files : Matches(f, ext) }
       \cup (IF rec THEN { InCompleted(f) : f \in { g \in completed.files : Matches(g, ext) } }
             ELSE {})

\* the positions of a listing for which get_first_number draws a random
\* number
Drawing(order) == { k \in 1..Len(order) : ~HasNumber(FileName(order[k])) }

\* load_files_ext(target_dir, ext, recursive=rec) of the package: glob
\* yields the matching files in some order `order`, rnds[k] is the random
\* number drawn for the k-th file, whose name holds no digit
LoadFilesExt(ext, rec) ==
    /\ files_pc = "start"
    /\ recursive' = rec
    /\ \E order \in Listings(Glob(ext, rec)) : \E rnds \in [Drawing(order) -> RandInts] :
          /\ listing' = order
          /\ ids' = [k \in 1..Len(order) |->
                       get_first_number(FileName(order[k]),
                                        IF k \in Drawing(order) THEN rnds[k] ELSE 0)]
          /\ approved_files' = Keys(dict_sort_by_vals(my_dict(order, ids')))
    /\ files_pc' = "loaded"
    /\ UNCHANGED <<dirvars, chapter_order, tocvars>>
    /\ UNCHANGED <<corevars, tokvars, pdfvars>>

\* digest_txt_directory(src_dir, identifer) of the package, called while
\* the directory is prepared, before load_files_ext lists it: the digest
\* file is opened for writing in src_dir, a new file or the old one again
DigestTxtDirectory(identifer) ==
    /\ files_pc = "start"
    /\ DigestFile(identifer) \in dir_files
          \/ Cardinality(dir_files) + Cardinality(completed.files) < MaxFiles
    /\ dir_files' = dir_files \cup {DigestFile(identifer)}
    /\ UNCHANGED <<completed, recursive, listing, ids, approved_files, chapter_order,
                   files_pc, tocvars>>
    /\ UNCHANGED <<corevars, tokvars, pdfvars>>

\* move2completed(from_dir, filename) of the package, called while the
\* directory is prepared: the subfolder is made if it is not there, then
\* the file is moved into it, replacing a file of that name; a file that
\* is not in from_dir makes shutil.move raise, which is caught
Move2Completed(filename) ==
    /\ files_pc = "start"
    /\ completed' = [made |-> TRUE,
                     files |-> IF filename \in dir_files
                               THEN completed.files \cup {filename} ELSE completed.files]
    /\ dir_files' = dir_files \ {filename}
    /\ UNCHANGED <<recursive, listing, ids, approved_files, chapter_order, files_pc,
                   tocvars>>
    /\ UNCHANGED <<corevars, tokvars, pdfvars>>

\* math.ceil(a / b) for a positive divisor
CeilDiv_Floor(a, b) == a \div b

\* int(math.ceil(a / b)) for a positive divisor
CeilDiv(a, b) == IF a % b = 0 THEN a \div b ELSE (a \div b) + 1

\* title_thresh: int = 39, std_thresh: int = 60
DefaultTitleThresh == 39
DefaultStdThresh == 60

\* estimate_TOC_pages after its assertion: one page while the entries fit
\* the title page, else one page more per std_thresh further entries
estimate_TOC_pages(n, tt, st) ==
    IF CeilDiv(n, tt) < 2 THEN 1 ELSE 1 + CeilDiv(n - tt, st)

\* dir_to_pdf after load_files_ext: assert len(approved_files) > 0, then
\* toc_pages = estimate_TOC_pages(len(approved_files)), then
\* for i, textfile in enumerate(approved_files): pdf.print_chapter(...)
DirToPdfChapters ==
    /\ files_pc = "loaded"
    /\ IF Len(approved_files) > 0
       THEN /\ n_entries' = Len(approved_files)
            /\ title_thresh' = DefaultTitleThresh
            /\ std_thresh' = DefaultStdThresh
            /\ toc_pages' = estimate_TOC_pages(Len(approved_files), DefaultTitleThresh,
                                                DefaultStdThresh)
            /\ toc_pc' = "returned"
            /\ chapter_order' = approved_files
            /\ files_pc' = "done"
       ELSE /\ chapter_order' = chapter_order
            /\ files_pc' = "raised"
            /\ UNCHANGED tocvars
    /\ UNCHANGED <<dirvars, recursive, listing, ids, approved_files>>
    /\ UNCHANGED <<corevars, tokvars, pdfvars>>

InitFiles ==
    /\ CoreIdle
    /\ TokIdle
    /\ PdfIdle
    /\ TocIdle
    /\ dir_files \in { S \in SUBSET AllFiles : Cardinality(S) <= MaxFiles }
    /\ NoSubfolder
    /\ recursive = FALSE
    /\ listing = <<>>
    /\ ids = <<>>
    /\ approved_files = <<>>
    /\ chapter_order = <<>>
    /\ files_pc = "start"

NextFiles ==
    \/ \E rec \in BOOLEAN : LoadFilesExt("txt", rec)
    \/ DirToPdfChapters
    \/ \E identifer \in Identifiers : DigestTxtDirectory(identifer)
    \/ \E filename \in FileNames : Move2Completed(filename)

SpecFiles == InitFiles /\ [][NextFiles]_vars

\* ------------------------------------------------ estimate_TOC_pages
\* the thresholds tried: small ones and the defaults
Thresholds == (1..MaxThresh) \cup {DefaultTitleThresh, DefaultStdThresh}

\* estimate_TOC_pages(n_entries=n, title_thresh=tt, std_thresh=st) called
\* on its own: assert n_entries > 0, then the estimate
EstimateTOCPages(n, tt, st) ==
    /\ files_pc = "idle"
    /\ toc_pc = "idle"
    /\ n_entries' = n
    /\ title_thresh' = tt
    /\ std_thresh' = st
    /\ IF n > 0
       THEN /\ toc_pages' = estimate_TOC_pages(n, tt, st)
            /\ toc_pc' = "returned"
       ELSE /\ toc_pages' = 0
            /\ toc_pc' = "raised"
    /\ UNCHANGED <<dirvars, recursive, listing, ids, approved_files, chapter_order, files_pc>>
    /\ UNCHANGED <<corevars, tokvars, pdfvars>>

\* either estimate_TOC_pages is called directly, or dir_to_pdf runs on a
\* directory
InitToc ==
    /\ CoreIdle
    /\ TokIdle
    /\ PdfIdle
    /\ TocIdle
    /\ NoSubfolder
    /\ recursive = FALSE
    /\ listing = <<>>
    /\ ids = <<>>
    /\ approved_files = <<>>
    /\ chapter_order = <<>>
    /\ \/ files_pc = "idle" /\ dir_files = {}
       \/ files_pc = "start" /\ dir_files \in { S \in SUBSET AllFiles : Cardinality(S) <= MaxFiles }

NextToc ==
    \/ \E n \in (-1)..MaxEntries, tt \in Thresholds, st \in Thresholds :
          EstimateTOCPages(n, tt, st)
    \/ \E rec \in BOOLEAN : LoadFilesExt("txt", rec)
    \/ DirToPdfChapters

SpecToc == InitToc /\ [][NextToc]_vars

\* ------------------------------------- the standalone script (src/)
\* dict_sort_by_keys: natsorted(d.items(), key=lambda item: item[0]); the
\* keys of a dictionary are distinct
RECURSIVE SortItemsByKey(_, _)
SortItemsByKey(d, rest) ==
    IF rest = {} THEN <<>>
    ELSE LET i == CHOOSE a \in rest : \A b \in rest : d[a][1] <= d[b][1]
         IN <<d[i]>> \o SortItemsByKey(d, rest \ {i})

dict_sort_by_keys(d) == SortItemsByKey(d, 1..Len(d))

\* sorted_dict.values()
Values(d) == [i \in 1..Len(d) |-> d[i][2]]

\* load_files_ext(target_dir, ext, recursive=rec) of the script: my_dict =
\* dict(zip(ids, files)), sorted by its keys, the values returned
LoadFilesExtScript(ext, rec) ==
    /\ files_pc = "start"
    /\ recursive' = rec
    /\ \E order \in Listings(Glob(ext, rec)) : \E rnds \in [Drawing(order) -> RandInts] :
          /\ listing' = order
          /\ ids' = [k \in 1..Len(order) |->
                       get_first_number(FileName(order[k]),
                                        IF k \in Drawing(order) THEN rnds[k] ELSE 0)]
          /\ approved_files' = Values(dict_sort_by_keys(ZipDict(ids', order)))
    /\ files_pc' = "loaded"
    /\ UNCHANGED <<dirvars, chapter_order, tocvars>>
    /\ UNCHANGED <<corevars, tokvars, pdfvars>>

\* digest_txt_directory(src_dir, identifer) of the script's utils
DigestTxtDirectoryScript(identifer) ==
    /\ files_pc = "start"
    /\ DigestFile(identifer) \in dir_files
          \/ Cardinality(dir_files) + Cardinality(completed.files) < MaxFiles
    /\ dir_files' = dir_files \cup {DigestFile(identifer)}
    /\ UNCHANGED <<completed, recursive, listing, ids, approved_files, chapter_order,
                   files_pc, tocvars>>
    /\ UNCHANGED <<corevars, tokvars, pdfvars>>

\* move2completed(from_dir, filename) of the script's utils
Move2CompletedScript(filename) ==
    /\ files_pc = "start"
    /\ completed' = [made |-> TRUE,
                     files |-> IF filename \in dir_files
                               THEN completed.files \cup {filename} ELSE completed.files]
    /\ dir_files' = dir_files \ {filename}
    /\ UNCHANGED <<recursive, listing, ids, approved_files, chapter_order, files_pc,
                   tocvars>>
    /\ UNCHANGED <<corevars, tokvars, pdfvars>>

\* the script after load_files_ext: assert len(approved_files) > 0,
\* pdf.set_author(os.getlogin()), which raises OSError when the process has
\* no controlling terminal (login_ok is FALSE), toc_pages =
\* estimate_TOC_pages(len(approved_files)), then one chapter per file in
\* the order returned
ScriptChapters(login_ok) ==
    /\ files_pc = "loaded"
    /\ IF Len(approved_files) > 0 /\ login_ok
       THEN /\ n_entries' = Len(approved_files)
            /\ title_thresh' = DefaultTitleThresh
            /\ std_thresh' = DefaultStdThresh
            /\ toc_pages' = estimate_TOC_pages(Len(approved_files), DefaultTitleThresh,
                                                DefaultStdThresh)
            /\ toc_pc' = "returned"
            /\ chapter_order' = approved_files
            /\ files_pc' = "done"
       ELSE /\ chapter_order' = chapter_order
            /\ files_pc' = "raised"
            /\ UNCHANGED tocvars
    /\ UNCHANGED <<dirvars, recursive, listing, ids, approved_files>>
    /\ UNCHANGED <<corevars, tokvars, pdfvars>>

NextScript ==
    \/ \E rec \in BOOLEAN : LoadFilesExtScript("txt", rec)
    \/ \E login_ok \in BOOLEAN : ScriptChapters(login_ok)
    \/ \E identifer \in Identifiers : DigestTxtDirectoryScript(identifer)
    \/ \E filename \in FileNames : Move2CompletedScript(filename)

SpecScript == InitFiles /\ [][NextScript]_vars

\* ------------------------------------------------- properties: helpers
\* whitespace normalization: " ".join(s.split())
RECURSIVE Collapse(_)
Collapse(s) ==
    IF s = <<>> THEN <<>>
    ELSE IF Head(s) \in Whitespace
         THEN LET r == LStrip(s, Whitespace)
              IN IF r = <<>> THEN <<>> ELSE <<" ">> \o Collapse(r)
         ELSE <<Head(s)>> \o Collapse(Tail(s))

WsNormalize(s) == Collapse(Strip(s, Whitespace))

NumSentences == Len(sentenced_text)

\* the sentence indices (1-based) each returned paragraph is made of
ParagraphSources ==
    IF branch = "segmented"
    THEN get_segments([k \in 1..NumSentences |-> k], optimal_segmentation)
    ELSE [k \in 1..NumSentences |-> <<k>>]

SentencesOf(idx) == [k \in 1..Len(idx) |-> sentenced_text[idx[k]]]

\* the objective of section 4.4 for the partition given by splits: the sum
\* of the segment costs (the negated norm of the segment's vector sum) plus
\* the penalty once per segment
Objective(docmat, splits, pen) ==
    (Len(splits) + 1) * pen - TotalScore(docmat, <<0>> \o splits \o <<Len(docmat)>>)

AllSplits(L) == { SortedSeq(S) : S \in SUBSET (1..(L - 1)) }

IsPartition(splits, L) ==
    /\ \A k \in 1..Len(splits) : splits[k] \in 1..(L - 1)
    /\ \A k \in 1..(Len(splits) - 1) : splits[k] < splits[k + 1]

\* ----------------------------------------------------------------- claims
\* C1 (coverage): whenever split_to_pars has returned, the paragraphs joined
\* with single spaces and whitespace-normalized equal the whitespace-
\* normalized single-space join of the tokenized sentences, whichever of the
\* three paths produced them.
C1_Coverage ==
    pc = "done" =>
        WsNormalize(JoinSpace(paragraphs)) = WsNormalize(JoinSpace(sentenced_text))

C1_Witness ==
    /\ pc = "done"
    /\ branch = "segmented"
    /\ Len(paragraphs) >= 2
    /\ Len(paragraphs) < NumSentences

\* C2 (order preservation): in the returned list, every paragraph is built
\* from the sentences of its index range, and for sentence indices i < j the
\* sentence i is never in a paragraph after the paragraph holding j.
C2_OrderPreserved ==
    pc = "done" =>
        LET src == ParagraphSources
        IN /\ Len(src) = Len(paragraphs)
           /\ \A p \in 1..Len(src) :
                 paragraphs[p] = Strip(JoinSpace(SentencesOf(src[p])), {" "})
           /\ \A p \in 1..Len(src), q \in 1..Len(src) :
                 \A a \in 1..Len(src[p]), b \in 1..Len(src[q]) :
                    src[p][a] < src[q][b] => p <= q

C2_Witness ==
    /\ pc = "done"
    /\ branch = "segmented"
    /\ Len(paragraphs) >= 3
    /\ \E p \in 1..Len(ParagraphSources) : Len(ParagraphSources[p]) >= 2

\* C3 (fallback): when the number of sentences N is at most segment_len, the
\* call computes neither the penalty nor the optimal segmentation, issues
\* the one warning and no error, and returns N paragraphs, the k-th holding
\* the text of the k-th sentence (up to the surrounding whitespace).
C3_Fallback ==
    (pc = "done" /\ NumSentences <= segment_len) =>
        /\ branch = "short"
        /\ ran = {}
        /\ exc = "none"
        /\ warned = <<"less sentences than desired segments">>
        /\ Len(paragraphs) = NumSentences
        /\ \A k \in 1..NumSentences :
              Strip(paragraphs[k], Whitespace) = Strip(sentenced_text[k], Whitespace)

C3_Witness ==
    /\ pc = "done"
    /\ NumSentences = 3
    /\ segment_len = 3
    /\ Len(paragraphs) = 3

\* C4 (exception fallback): a failure raised by the penalty calibration or
\* by the segmentation never leaves split_to_pars; the call warns and
\* returns one paragraph per sentence, the k-th holding the text of the k-th
\* sentence.
C4_NoPropagation ==
    /\ pc # "raised"
    /\ (pc = "done" /\ exc # "none") =>
          /\ branch = "except"
          /\ warned = <<"Error in split_to_pars">>
          /\ Len(paragraphs) = NumSentences
          /\ \A k \in 1..NumSentences :
                Strip(paragraphs[k], Whitespace) = Strip(sentenced_text[k], Whitespace)

C4_Witness ==
    /\ pc = "done"
    /\ exc = "AssertionError"
    /\ NumSentences >= 2

\* C5 (optimality): the splits chosen by split_optimal form a partition of
\* [0, N) into contiguous non-empty segments whose objective (segment costs
\* plus penalty per segment) is minimal among all such partitions.
C5_Optimal ==
    "split_optimal" \in ran /\ exc = "none" =>
        /\ IsPartition(optimal_segmentation, Len(sentence_vectors))
        /\ \A sp \in AllSplits(Len(sentence_vectors)) :
              Objective(sentence_vectors, optimal_segmentation, penalty)
                 <= Objective(sentence_vectors, sp, penalty)

C5_Witness ==
    /\ "split_optimal" \in ran
    /\ exc = "none"
    /\ Len(optimal_segmentation) >= 1
    /\ Len(optimal_segmentation) < Len(sentence_vectors) - 1
    /\ \E sp \in AllSplits(Len(sentence_vectors)) :
          Objective(sentence_vectors, optimal_segmentation, penalty)
             < Objective(sentence_vectors, sp, penalty)

\* C6 (segment count monotonicity): a later call on the same text and table
\* with a larger segment_len never returns more paragraphs than the call
\* with the smaller segment_len did.
C6_Monotone ==
    (pc = "done" /\ prev.branch # "none" /\ prev.segment_len < segment_len) =>
        Len(paragraphs) <= Len(prev.paragraphs)

\* C7 (determinism): two calls on the same text and table with the same
\* segment_len return the same paragraph list.
C7_Deterministic ==
    (pc = "done" /\ prev.branch # "none" /\ prev.segment_len = segment_len) =>
        paragraphs = prev.paragraphs

\* C8 (zero sentences): when the tokenizer finds no sentence, the call
\* returns the whole input text as the single paragraph.
C8_ZeroSentences ==
    (pc = "done" /\ NumSentences = 0) =>
        /\ Len(paragraphs) = 1
        /\ WsNormalize(paragraphs[1]) = WsNormalize(full_text)

\* C9 (assembly): in the segmented path there is one paragraph per segment
\* of the partition, and each is the sentences of its segment joined by one
\* space with all leading and trailing whitespace removed.
C9_Assembly ==
    (pc = "done" /\ branch = "segmented") =>
        /\ Len(paragraphs) = Len(optimal_segmentation) + 1
        /\ \A p \in 1..Len(paragraphs) :
              paragraphs[p] = Strip(JoinSpace(SentencesOf(ParagraphSources[p])), Whitespace)

\* the five sentences of the scenario: two of one topic, three of another
ScenarioText == <<"cat", ".", " ", "cat", ".", " ",
                  "stock", ".", " ", "stock", ".", " ", "stock", ".", " ">>

\* C10 (concrete scenario): for the five-sentence text and a segment_len of
\* 2 or 3 the call returns exactly the two paragraphs of the boundaries
\* [0, 2, 5].
C10_Scenario ==
    (pc = "done" /\ full_text = ScenarioText /\ segment_len \in {2, 3}) =>
        /\ optimal_segmentation = <<2>>
        /\ paragraphs = << <<"cat", ".", " ", "cat", ".">>,
                           <<"stock", ".", " ", "stock", ".", " ", "stock", ".">> >>

\* a sentence none of whose tokens is in the table's vocabulary
OOVOnly(s) == \A k \in 1..Len(s) : s[k] \notin DOMAIN wordvectors

HasOOVSentence == \E k \in 1..Len(sentenced_text) : OOVOnly(sentenced_text[k])

\* C11 (zero-vector robustness): when some sentence consists only of
\* out-of-vocabulary tokens, so that its sentence vector is zero, no
\* exception leaves split_to_pars, and the returned paragraphs cover the
\* sentences and keep their order.
C11_ZeroVector ==
    HasOOVSentence =>
        /\ pc # "raised"
        /\ \A k \in 1..Len(sentence_vectors) :
              OOVOnly(sentenced_text[k]) => sentence_vectors[k] = 0
        /\ pc = "done" =>
              /\ WsNormalize(JoinSpace(paragraphs)) = WsNormalize(JoinSpace(sentenced_text))
              /\ Len(ParagraphSources) = Len(paragraphs)
              /\ \A p \in 1..Len(paragraphs) :
                    /\ paragraphs[p] = Strip(JoinSpace(SentencesOf(ParagraphSources[p])), {" "})
                    /\ \A q \in 1..Len(paragraphs) :
                          \A a \in 1..Len(ParagraphSources[p]), b \in 1..Len(ParagraphSources[q]) :
                             ParagraphSources[p][a] < ParagraphSources[q][b] => p <= q

C11_Witness ==
    /\ pc = "done"
    /\ HasOOVSentence
    /\ \E k \in 1..NumSentences : ~OOVOnly(sentenced_text[k])
    /\ branch = "segmented"
    /\ "split_optimal" \in ran
    /\ penalty > 0
    /\ \E k \in 1..Len(sentence_vectors) : sentence_vectors[k] = 0

\* the same case with every sentence out of vocabulary: the penalty is 0
\* and the assertion of split_optimal fails
C11_AllZero ==
    /\ pc = "done"
    /\ NumSentences >= 2
    /\ \A k \in 1..NumSentences : OOVOnly(sentenced_text[k])
    /\ exc = "AssertionError"

\* C12 (tokenizer output): once the tokenizing step of split_to_pars has
\* run (punkt, simple, or the split on "." of a detector's single string),
\* no sentence is the empty string and no sentence starts or ends with
\* whitespace.
C12_SentencesStripped ==
    pc # "call" =>
        \A k \in 1..Len(sentenced_text) :
           /\ sentenced_text[k] # <<>>
           /\ Strip(sentenced_text[k], Whitespace) = sentenced_text[k]

\* C13 (punkt unavailable): when punkt was requested and its data is still
\* missing after the download attempt, the call does not raise: it goes on
\* with the sentences of the simple tokenizer.
C13_PunktFallback ==
    ("load_punkt" \in ran /\ punkt_data = "missing") =>
        /\ pc # "raised"
        /\ exc = "none"
        /\ pc # "call" => sentenced_text = SimpleSentenceTokenizer(full_text)

\* C14 (table unavailable): an operation entered with splitting enabled
\* while there is no local model file and the fetch fails ends with the
\* exception (unless the object already holds a table loaded under another
\* model name); it writes nothing, and initialized_word2vec stays False
\* with no table held.
C14_LoadFailurePropagates ==
    (last.op # "none" /\ last.self_split /\ ~Exists(model_file[DefaultModel]) /\ ~fetch_ok
        /\ wrdvecs[last.pdf] \notin ModelNames \ {DefaultModel}) =>
        /\ last.raised
        /\ last.body = "none"
        /\ ~initialized_word2vec[last.pdf]
        /\ wrdvecs[last.pdf] = "None"
        /\ loads[last.pdf] = 0

C14_Witness ==
    /\ last.op \in ChapterOps
    /\ last.self_split
    /\ last.raised
    /\ ~Exists(model_file[DefaultModel])
    /\ ~fetch_ok

\* C15 (one load per process): over all conversions of the process, on
\* however many PDF objects, the word vector table is loaded at most once.
C15_LoadedOncePerProcess == SumSeq(loads) <= 1

\* C16 (document independence): on one PDF object two chapters with the
\* same text get the same split decision, whatever chapters came between.
C16_Independent ==
    \A p \in 1..Len(seen) :
       \A a \in seen[p], b \in seen[p] : a[1] = b[1] => a[2] = b[2]

\* C17 (splitting disabled): on a PDF constructed with
\* split_paragraphs=False no chapter body goes to split_to_pars and the
\* word2vec model is never loaded.
C17_NoSplitWhenDisabled ==
    \A p \in 1..Len(ctor_args) :
       ~ctor_args[p].split_paragraphs =>
          /\ ~initialized_word2vec[p]
          /\ loads[p] = 0
          /\ \A a \in seen[p] : a[2] = "block"

\* C18 (keywords): a chapter gets its keyword section exactly when
\* keywords_enabled holds and the text has more than keyword_threshold
\* characters, and the keyword text is never passed to split_to_pars.
C18_Keywords ==
    (last.op \in ChapterOps /\ ~last.raised) =>
        /\ last.keywords <=> (keywords_enabled[last.pdf] /\ last.len > keyword_threshold)
        /\ ~keywords_enabled[last.pdf] => ~last.keywords
        /\ ~last.kw_split

C18_Witness ==
    /\ last.op \in ChapterOps
    /\ last.self_split
    /\ last.body = "split"
    /\ last.keywords
    /\ ~last.kw_split

\* the files of the directory that match the extension asked for, those
\* of the subfolder included when the call was recursive
Matching == Glob("txt", recursive)

\* the code point of a character of a file name
CharCode(c) ==
    IF c = "." THEN 46 ELSE IF c = "_digest" THEN 95 ELSE IF c = "0" THEN 48 ELSE IF c = "1" THEN 49
    ELSE IF c = "2" THEN 50 ELSE IF c = "a" THEN 97 ELSE IF c = "b" THEN 98
    ELSE IF c = "c" THEN 99 ELSE IF c = "n" THEN 110 ELSE IF c = "md" THEN 109
    ELSE 116

\* a <= b as Python compares strings
RECURSIVE NameLeq(_, _)
NameLeq(a, b) ==
    IF a = <<>> THEN TRUE
    ELSE IF b = <<>> THEN FALSE
    ELSE IF CharCode(Head(a)) # CharCode(Head(b)) THEN CharCode(Head(a)) < CharCode(Head(b))
    ELSE NameLeq(Tail(a), Tail(b))

\* C19 (package load_files_ext): the returned files are the matching files
\* of the directory, each exactly once, and files with a number in their
\* name come in non-decreasing order of their first number; files that
\* share a first number are all kept.
C19_AllFilesByNumber ==
    files_pc \in {"loaded", "done", "raised"} =>
        /\ Len(approved_files) = Cardinality(Matching)
        /\ \A f \in Matching : \E k \in 1..Len(approved_files) : approved_files[k] = f
        /\ \A i \in 1..Len(approved_files), j \in 1..Len(approved_files) :
              (i < j /\ HasNumber(FileName(approved_files[i]))
                     /\ HasNumber(FileName(approved_files[j])))
                 => get_first_number(FileName(approved_files[i]), 0)
                       <= get_first_number(FileName(approved_files[j]), 0)

C19_Witness ==
    /\ files_pc = "loaded"
    /\ Len(approved_files) = 3
    /\ listing # approved_files
    /\ \E i \in 1..3, j \in 1..3 :
          /\ i # j
          /\ HasNumber(approved_files[i])
          /\ HasNumber(approved_files[j])
          /\ get_first_number(approved_files[i], 0) = get_first_number(approved_files[j], 0)

\* C20 (alphabetical chapters): the chapters dir_to_pdf writes are in
\* alphabetical order of their file names.
C20_Alphabetical ==
    files_pc = "done" =>
        \A i \in 1..Len(chapter_order), j \in 1..Len(chapter_order) :
           i < j => NameLeq(FileName(chapter_order[i]), FileName(chapter_order[j]))

\* C21 (TOC pages): for n_entries >= 1 estimate_TOC_pages returns the least
\* p >= 1 with title_thresh + (p - 1) * std_thresh >= n_entries, no smaller
\* entry count gets more pages, the call fails its assertion exactly for
\* n_entries <= 0, and dir_to_pdf never makes it fail.
C21_TocPages ==
    /\ toc_pc = "returned" =>
          /\ n_entries >= 1
          /\ toc_pages >= 1
          /\ title_thresh + (toc_pages - 1) * std_thresh >= n_entries
          /\ toc_pages > 1 => title_thresh + (toc_pages - 2) * std_thresh < n_entries
          /\ \A m \in 1..n_entries :
                estimate_TOC_pages(m, title_thresh, std_thresh) <= toc_pages
    /\ toc_pc = "raised" => n_entries <= 0
    /\ files_pc \in {"loaded", "done", "raised"} => toc_pc # "raised"
    /\ files_pc = "done" => toc_pc = "returned" /\ n_entries = Len(chapter_order)

C21_Witness ==
    /\ toc_pc = "returned"
    /\ title_thresh = DefaultTitleThresh
    /\ std_thresh = DefaultStdThresh
    /\ n_entries = DefaultTitleThresh + DefaultStdThresh + 1
    /\ toc_pages = 3

\* C22 (one download): for each model name the remote download happens at
\* most once over all loads: never when the local .pkl was there, and once
\* a load has succeeded the file exists, so that later loads read it.
C22_DownloadOnce ==
    \A m \in ModelNames :
       /\ downloads[m] <= 1
       /\ model_file[m] = "present" => downloads[m] = 0
       /\ downloads[m] = 1 => model_file[m] = "saved"
       /\ (\E p \in 1..Len(wrdvecs) : wrdvecs[p] = m) => Exists(model_file[m])

C22_Witness ==
    /\ Len(wrdvecs) >= 2
    /\ wrdvecs[1] = DefaultModel
    /\ wrdvecs[2] = DefaultModel
    /\ loads[1] = 1
    /\ loads[2] = 1
    /\ downloads[DefaultModel] = 1

\* C24 as stated (one invocation per PDF object): on one PDF object
\* load_word2vec_model is invoked at most once.
C24_InvokedOnce == \A p \in 1..Len(invoked) : invoked[p] <= 1

\* C24 amended (one table per PDF object): no step makes the number of
\* load_word2vec_model calls that returned a table exceed one on a PDF
\* object; an invocation happens only on an object that is not initialized,
\* and it either fails and leaves the object as it was or is the one that
\* initializes it; once the object is initialized no call, whatever
\* word2vec_model it names, invokes load_word2vec_model, loads again or
\* changes wrdvecs.
C24_LoadedOncePerInstance ==
    [][\A p \in 1..Len(loads) :
          /\ loads'[p] <= 1
          /\ invoked'[p] # invoked[p] =>
                /\ ~initialized_word2vec[p]
                /\ invoked'[p] = invoked[p] + 1
                /\ \/ loads'[p] = 1 /\ initialized_word2vec'[p]
                   \/ /\ loads'[p] = 0
                      /\ ~initialized_word2vec'[p]
                      /\ wrdvecs'[p] = wrdvecs[p]
          /\ initialized_word2vec[p] =>
                /\ invoked'[p] = invoked[p]
                /\ loads'[p] = loads[p]
                /\ wrdvecs'[p] = wrdvecs[p]
                /\ initialized_word2vec'[p]]_vars

\* a failed invocation was followed by one that loaded, and a later chapter
\* was split with that table
C24_Witness ==
    /\ last.op \in ChapterOps
    /\ last.body = "split"
    /\ last.table = "glove-twitter-25"
    /\ wrdvecs[last.pdf] = "glove-twitter-25"
    /\ loads[last.pdf] = 1
    /\ invoked[last.pdf] = 2

\* C25 (table at the call): whenever a PDF method has called split_to_pars,
\* the table it passed was a loaded one and the object is initialized.
C25_TableLoaded ==
    last.table # "n/a" =>
        /\ last.table \in ModelNames
        /\ initialized_word2vec[last.pdf]

\* C23 (script load_files_ext): the files returned by the script's
\* load_files_ext are the matching files of the directory, each exactly
\* once, in non-decreasing order of the first number of their names, also
\* when two names have the same first number.
C23_ScriptAllFiles ==
    files_pc \in {"loaded", "done", "raised"} =>
        /\ Len(approved_files) = Cardinality(Matching)
        /\ \A f \in Matching : \E k \in 1..Len(approved_files) : approved_files[k] = f
        /\ \A i \in 1..Len(approved_files), j \in 1..Len(approved_files) :
              (i < j /\ HasNumber(FileName(approved_files[i]))
                     /\ HasNumber(FileName(approved_files[j])))
                 => get_first_number(FileName(approved_files[i]), 0)
                       <= get_first_number(FileName(approved_files[j]), 0)

====
